---- MODULE Spec2Model ----
(***************************************************************************)
(* DialogueTextbox-Generator: the text layout (wrap_text), the reveal     *)
(* loops of the pixel-perfect pipeline (generate.py, generate_video) and  *)
(* of the fixed-box pipeline (gradient.py, generate_frames), the frame    *)
(* export of the fixed-box pipeline, a run of an engine script from its    *)
(* front end (command line, gui.py, tui.py) through main, load_config,     *)
(* process_batch and generate_video to the report, the job configuration   *)
(* main builds from the defaults, the file and the command line, and the   *)
(* worker threads of gui.py.                                               *)
(*                                                                         *)
(* A string is a sequence of one-character strings.  A duration in        *)
(* seconds is held as a number of half seconds, so that the float         *)
(* product seconds * fps of the source is an exact number of half frames. *)
(***************************************************************************)
EXTENDS Integers, Sequences, FiniteSets, TLC

VARIABLES
    pc,                     \* position of the modelled run
    \* ---- text layout (wrap_text)
    text,                   \* the raw dialogue text
    max_width,              \* the max_width argument
    caller,                 \* which wrap_text was called, and how
    wrap_input,             \* the text argument wrap_text received
    wrapped,                \* the list wrap_text returned
    \* ---- both reveal loops
    pipeline,               \* "px" (generate.py) or "box" (gradient.py)
    lines,                  \* the wrapped lines handed to the loop
    config,                 \* the job's configuration
    video,                  \* the frames emitted so far, in emission order
    \* ---- generate.py generate_video
    current_line_index, char_index, frame_counter, pause_frames,
    animation_done, total_frames_rendered, start_of_padding_frame,
    sound_plays,            \* calls of sound.play() so far
    \* ---- gradient.py generate_frames
    text_lines, current_line, current_char, frame_number, dwell_i,
    screen,                 \* the pixels of the one surface every frame is drawn on
    saved,                  \* the frame files: the reveal state and the pixels saved
    \* ---- gradient.py export_*
    temp_dir,               \* os.listdir(temp_dir): the frame file names
    exported,               \* the frame file names in the order the exporter read them
    \* ---- a run of an engine script, from a front end to its report
    engine,                 \* "generate.py" or "gradient.py"
    frontend,               \* who started the script: "cli", "gui" or "tui"
    args,                   \* the command line: dry_run, batch, output_format
    env,                    \* what the run finds on the machine
    files,                  \* the input files of the run: what open() does on each
    file_index,             \* the file generate_video was last called for (from 1)
    events,                 \* what the current call of generate_video did so far
    returned,               \* what the last call of generate_video returned
    returncode,             \* the exit status of the script's process
    reported,               \* what the front end told the user: the status line
    \* ---- main building the job configuration
    heap,                   \* the list objects configurations refer to, by identity
    \* ---- gui.py run_command
    workers,                \* the worker threads started so far
    tk_calls                \* the calls made on Tk objects, with the calling thread

wrapVars == <<text, max_width, caller, wrap_input, wrapped>>
jobVars == <<pipeline, lines, config>>
pxVars == <<current_line_index, char_index, frame_counter, pause_frames,
            animation_done, total_frames_rendered, start_of_padding_frame,
            sound_plays>>
boxVars == <<text_lines, current_line, current_char, frame_number, dwell_i,
             screen, saved>>
exportVars == <<temp_dir, exported>>
runVars == <<engine, frontend, args, env, files, file_index, events, returned,
             returncode, reported, heap, workers, tk_calls>>
vars == <<pc, wrapVars, jobVars, video, pxVars, boxVars, exportVars, runVars>>

\* ------------------------------------------------------------------ bounds

\* Longest raw text given to wrap_text.
MaxText == 4
\* Largest max_width given to wrap_text (the smallest is -1).
MaxWidth == 3
\* Most characters, over all its lines, of a list of wrapped lines given to a loop.
MaxChars == 3
\* Largest char_speed (frames per character) of a generated configuration.
MaxSpeed == 2
\* Largest pause_comma of a generated configuration (pause_punctuation is one more).
MaxPause == 2
\* Longest dwell of a generated configuration, in half seconds.
MaxDwell == 3
\* font.get_height() of the font in use, in pixels.
FontHeight == 2
\* Tallest box of a generated configuration, in text rows.
MaxRows == 3
\* Largest padding of a generated fixed-box configuration, in pixels.
MaxPadding == 2
\* Blends of an antialiased glyph after which a pixel's alpha is saturated.
MaxInk == 3
\* Most lines of a list given to a loop in the termination runs.
MaxTermLines == 2
\* Most frame files of an export run, beside the run that overflows the file name.
MaxFrames == 40

\* ------------------------------------------------------------ strings

Min(a, b) == IF a <= b THEN a ELSE b
Max(a, b) == IF a >= b THEN a ELSE b

\* Python's seq[:n]: a negative n counts from the end.
Slice(s, n) ==
    IF n >= 0 THEN SubSeq(s, 1, Min(n, Len(s)))
    ELSE SubSeq(s, 1, Max(Len(s) + n, 0))

\* str.isspace() of one character, over the characters of the model.
IsSpace(c) == c \in {" ", "\n", "\t"}

\* str.strip(): the string without its leading and trailing whitespace.
RECURSIVE lstrip(_)
lstrip(s) ==
    IF s # <<>> /\ IsSpace(Head(s)) THEN lstrip(Tail(s)) ELSE s

RECURSIVE rstrip(_)
rstrip(s) ==
    IF s # <<>> /\ IsSpace(s[Len(s)]) THEN rstrip(SubSeq(s, 1, Len(s) - 1)) ELSE s

strip(s) == rstrip(lstrip(s))

\* str.split(sep) with a one-character separator: the pieces between the
\* separators, empty pieces kept; never an empty list.
RECURSIVE split(_, _)
split(s, sep) ==
    IF \A i \in 1..Len(s) : s[i] # sep THEN <<s>>
    ELSE LET i == CHOOSE k \in 1..Len(s) :
                     s[k] = sep /\ \A j \in 1..(k - 1) : s[j] # sep
         IN  <<SubSeq(s, 1, i - 1)>> \o split(SubSeq(s, i + 1, Len(s)), sep)

\* The font's advance of one character: "W" is a wide glyph.
CharWidth(c) == IF c = "W" THEN 2 ELSE 1

\* font.size(text)[0]: the rendered width of a string.
RECURSIVE measure(_)
measure(s) == IF s = <<>> THEN 0 ELSE CharWidth(Head(s)) + measure(Tail(s))

\* ------------------------------------------------- generate.py wrap_text

\* The placeholder a blank paragraph becomes.
blank_line == <<" ">>

\* `if current_line: lines.append(current_line)`.
\* (faulty variant: the `if current_line` test left out)
commit_skip_check(acc, current) == Append(acc, current)
\* (faulty variant: the line replaces the list instead of being appended)
commit_overwrite(acc, current) == IF current # <<>> THEN <<current>> ELSE acc
commit(acc, current) == IF current # <<>> THEN Append(acc, current) ELSE acc

\* `font.size(test_line)[0] <= max_width`.
\* (faulty variant: the length in characters, not the rendered width)
fits_by_len(test_line, width) == Len(test_line) <= width
fits(test_line, width) == measure(test_line) <= width

\* The loop over the words of one paragraph.
RECURSIVE wrap_words(_, _, _, _)
wrap_words(words, current, acc, width) ==
    IF words = <<>> THEN commit(acc, current)
    ELSE LET word == Head(words)
             test_line == IF current # <<>> THEN current \o <<" ">> \o word ELSE word
         IN  IF fits(test_line, width)
             THEN wrap_words(Tail(words), test_line, acc, width)
             ELSE wrap_words(Tail(words), word, commit(acc, current), width)

\* One iteration of the loop over the manual lines.
\* (faulty variant: a blank paragraph appends nothing)
wrap_paragraph_no_blank(acc, manual_line, width) ==
    IF strip(manual_line) = <<>> THEN acc
    ELSE wrap_words(split(manual_line, " "), <<>>, acc, width)
wrap_paragraph(acc, manual_line, width) ==
    IF strip(manual_line) = <<>> THEN Append(acc, blank_line)
    ELSE wrap_words(split(manual_line, " "), <<>>, acc, width)

RECURSIVE wrap_paragraphs(_, _, _)
wrap_paragraphs(manual_lines, acc, width) ==
    IF manual_lines = <<>> THEN acc
    ELSE wrap_paragraphs(Tail(manual_lines),
                         wrap_paragraph(acc, Head(manual_lines), width), width)

\* (faulty variant: the text stripped before it is split)
wrap_text_stripped(t, width) ==
    LET result == wrap_paragraphs(split(strip(t), "\n"), <<>>, width)
    IN  IF result # <<>> THEN result ELSE <<blank_line>>
wrap_text(t, width) ==
    LET result == wrap_paragraphs(split(t, "\n"), <<>>, width)
    IN  IF result # <<>> THEN result ELSE <<blank_line>>

\* ------------------------------------------------- gradient.py wrap_text

RECURSIVE gradient_wrap_words(_, _, _, _)
gradient_wrap_words(words, current, acc, width) ==
    IF words = <<>> THEN (IF current # <<>> THEN Append(acc, current) ELSE acc)
    ELSE LET word == Head(words)
             test_line == current \o (IF current # <<>> THEN <<" ">> ELSE <<>>) \o word
         IN  IF measure(test_line) <= width
             THEN gradient_wrap_words(Tail(words), test_line, acc, width)
             ELSE gradient_wrap_words(Tail(words), word,
                      IF current # <<>> THEN Append(acc, current) ELSE acc, width)

RECURSIVE gradient_wrap_paragraphs(_, _, _)
gradient_wrap_paragraphs(paragraphs, acc, width) ==
    IF paragraphs = <<>> THEN acc
    ELSE LET paragraph == Head(paragraphs)
         IN  gradient_wrap_paragraphs(Tail(paragraphs),
                 IF strip(paragraph) = <<>> THEN Append(acc, <<" ">>)
                 ELSE gradient_wrap_words(split(paragraph, " "), <<>>, acc, width),
                 width)

gradient_wrap_text(t, width) ==
    LET result == gradient_wrap_paragraphs(split(t, "\n"), <<>>, width)
    IN  IF result # <<>> THEN result ELSE <<<<" ">>>>

\* ------------------------------------------------- idle values

\* The variables of a part of the program a specification does not run.
NoWrap ==
    /\ text = <<>> /\ max_width = 0 /\ caller = "none"
    /\ wrap_input = <<>> /\ wrapped = <<>>

NoJob == pipeline = "none" /\ lines = <<>> /\ config = [fps |-> 1] /\ video = <<>>

NoExport == temp_dir = <<>> /\ exported = <<>>

NoHeap == heap = <<>>

NoGui == workers = <<>> /\ tk_calls = {}

NoRun ==
    /\ engine = "none" /\ frontend = "none"
    /\ args = [dry_run |-> FALSE, batch |-> FALSE, output_format |-> "none"]
    /\ env = [font |-> "none"]
    /\ files = <<>> /\ file_index = 0 /\ events = {}
    /\ returned = "none" /\ returncode = "none" /\ reported = "none"
    /\ NoHeap /\ NoGui

\* ------------------------------------------------- the layout runs

TextChars == {"a", "W", " ", "\n", "\t"}

Texts == UNION {[1..n -> TextChars] : n \in 0..MaxText}

Widths == -1..MaxWidth

\* generate.py generate_video: the file's content goes to wrap_text as read.
PxWrap ==
    /\ pc = "wrap"
    /\ caller' = "generate.py"
    /\ wrap_input' = text
    /\ wrapped' = wrap_text(text, max_width)
    /\ pc' = "wrapped"
    /\ UNCHANGED <<text, max_width, jobVars, runVars, video, pxVars, boxVars, exportVars>>

\* gradient.py generate_video: the file's content is stripped first.
BoxWrap ==
    /\ pc = "wrap"
    /\ caller' = "gradient.py"
    /\ wrap_input' = strip(text)
    /\ wrapped' = gradient_wrap_text(strip(text), max_width)
    /\ pc' = "wrapped"
    /\ UNCHANGED <<text, max_width, jobVars, runVars, video, pxVars, boxVars, exportVars>>

\* ------------------------------------------------- frames

RECURSIVE total_chars(_)
\* `sum(len(line) for line in lines)`.
total_chars(ls) == IF ls = <<>> THEN 0 ELSE Len(Head(ls)) + total_chars(Tail(ls))

\* What a frame shows: of each line, how many of its characters are drawn.
\* Both loops draw the lines before the current one in full and, when there
\* is a current line, its first `chars` characters (a Python slice).
\* (faulty variant: the current line drawn in full)
Visible_current_line_in_full(ls, line_index, chars) ==
    [i \in 1..Len(ls) |-> IF i - 1 <= line_index THEN Len(ls[i]) ELSE 0]
Visible(ls, line_index, chars) ==
    [i \in 1..Len(ls) |->
        IF i - 1 < line_index THEN Len(ls[i])
        ELSE IF i - 1 = line_index THEN Min(chars, Len(ls[i]))
        ELSE 0]

\* The frame that shows every line in full.
FullFrame(ls) == [i \in 1..Len(ls) |-> Len(ls[i])]

RECURSIVE SumSeq(_)
SumSeq(s) == IF s = <<>> THEN 0 ELSE Head(s) + SumSeq(Tail(s))

\* The number of characters a frame shows.
Shown(frame) == SumSeq(frame)

\* ------------------------------------------------- generate.py, the reveal loop

DEFAULT_CONFIG ==
    [max_text_width |-> 1000, padding |-> 10, font_size |-> 20,
     char_speed |-> 1, pause_comma |-> 4, pause_punctuation |-> 10,
     dwell_halfsec |-> 4, fps |-> 30, sound |-> FALSE]

\* `float("inf")`, the start_of_padding_frame of a run that is still typing.
Infinity == 1000000

RECURSIVE line_pauses(_, _)
\* The inner loop of calculate_total_frames over one line.
line_pauses(line, cfg) ==
    IF line = <<>> THEN 0
    ELSE (IF Head(line) = "," THEN cfg.pause_comma
          ELSE IF Head(line) \in {".", "!", "?"} THEN cfg.pause_punctuation
          ELSE 0) + line_pauses(Tail(line), cfg)

RECURSIVE all_pauses(_, _)
all_pauses(ls, cfg) ==
    IF ls = <<>> THEN 0 ELSE line_pauses(Head(ls), cfg) + all_pauses(Tail(ls), cfg)

\* `int(config["video_duration_sec_after_text"] * config["fps"])`.
dwell_frames(cfg) == (cfg.dwell_halfsec * cfg.fps) \div 2

calculate_total_frames(ls, cfg) ==
    total_chars(ls) * cfg.char_speed + all_pauses(ls, cfg) + dwell_frames(cfg)

\* The pause a just revealed character queues (pause_frames is 0 when it is revealed).
\* (faulty variant: the two pause settings swapped)
punctuation_pause_swapped(ch, cfg) ==
    IF ch = "," THEN cfg.pause_punctuation
    ELSE IF ch \in {".", "!", "?"} THEN cfg.pause_comma
    ELSE 0
punctuation_pause(ch, cfg) ==
    IF ch = "," THEN cfg.pause_comma
    ELSE IF ch \in {".", "!", "?"} THEN cfg.pause_punctuation
    ELSE 0

\* `char_index += 1; if char_index >= len(line_text): char_index = 0;
\* current_line_index += 1`: the new <<current_line_index, char_index>>.
\* (faulty variant: `char_index = 0` left out)
line_advance_no_reset(line_index, chars, line_len) ==
    IF chars + 1 >= line_len THEN <<line_index + 1, chars + 1>>
    ELSE <<line_index, chars + 1>>
line_advance(line_index, chars, line_len) ==
    IF chars + 1 >= line_len THEN <<line_index + 1, 0>>
    ELSE <<line_index, chars + 1>>

\* `total_frames_rendered >= start_of_padding_frame + padding_frames_total`,
\* with padding_frames_total the float product seconds * fps: in half frames.
\* (faulty variants: start_of_padding_frame left out; `==` for `>=`)
dwell_over_no_start(total, start, cfg) ==
    2 * total >= cfg.dwell_halfsec * cfg.fps
dwell_over_equal(total, start, cfg) ==
    2 * total = 2 * start + cfg.dwell_halfsec * cfg.fps
dwell_over(total, start, cfg) ==
    2 * total >= 2 * start + cfg.dwell_halfsec * cfg.fps

\* More frames than any run of a loop emits: the cap of the frame counters.
FrameCap(ls, cfg) ==
    (total_chars(ls) + Len(ls))
        * (Max(cfg.char_speed, 1) + Max(cfg.pause_comma, cfg.pause_punctuation))
    + cfg.dwell_halfsec * cfg.fps + 2

\* One iteration of `while True` that reaches the render: lines 281-303 update
\* the reveal state, lines 309-333 draw the frame and hand it to the sinks.
PxFrame ==
    /\ pc = "px_loop"
    /\ total_frames_rendered < FrameCap(lines, config)
    /\ ~(animation_done /\ dwell_over(total_frames_rendered, start_of_padding_frame, config))
    /\ IF animation_done
       THEN UNCHANGED <<current_line_index, char_index, frame_counter, pause_frames,
                        animation_done, start_of_padding_frame, sound_plays>>
       ELSE IF pause_frames > 0
       THEN /\ pause_frames' = pause_frames - 1
            /\ UNCHANGED <<current_line_index, char_index, frame_counter,
                           animation_done, start_of_padding_frame, sound_plays>>
       ELSE IF frame_counter + 1 < config.char_speed
       THEN /\ frame_counter' = frame_counter + 1
            /\ UNCHANGED <<current_line_index, char_index, pause_frames,
                           animation_done, start_of_padding_frame, sound_plays>>
       ELSE LET line_text == lines[current_line_index + 1]
                has_char == char_index < Len(line_text)
                next == line_advance(current_line_index, char_index, Len(line_text))
            IN  /\ frame_counter' = 0
                /\ sound_plays' = IF has_char /\ config.sound
                                  THEN Append(sound_plays, line_text[char_index + 1])
                                  ELSE sound_plays
                /\ pause_frames' = IF has_char
                                   THEN punctuation_pause(line_text[char_index + 1], config)
                                   ELSE pause_frames
                /\ current_line_index' = next[1]
                /\ char_index' = next[2]
                /\ animation_done' = (next[1] # current_line_index /\ next[1] >= Len(lines))
                /\ start_of_padding_frame' =
                       IF next[1] # current_line_index /\ next[1] >= Len(lines)
                       THEN total_frames_rendered ELSE start_of_padding_frame
    /\ video' = Append(video, Visible(lines, current_line_index', char_index'))
    /\ total_frames_rendered' = total_frames_rendered + 1
    /\ UNCHANGED <<pc, wrapVars, jobVars, runVars, boxVars, exportVars>>

\* The iteration that takes the `break` of line 307.
PxBreak ==
    /\ pc = "px_loop"
    /\ animation_done
    /\ dwell_over(total_frames_rendered, start_of_padding_frame, config)
    /\ pc' = "done"
    /\ UNCHANGED <<wrapVars, jobVars, runVars, video, pxVars, boxVars, exportVars>>

\* ------------------------------------------------- gradient.py generate_frames

\* `(screen_height - 2 * padding) // line_height`.
max_lines(cfg) == (cfg.box_h - 2 * cfg.padding) \div FontHeight

\* `current_char += 1; if current_char > len(line): current_line += 1;
\* current_char = 0`: the new <<current_line, current_char>>.
box_advance(line_index, chars, line_len) ==
    IF chars + 1 > line_len THEN <<line_index + 1, 0>>
    ELSE <<line_index, chars + 1>>

\* What the dwell loop draws: every line of text_lines.
dwell_frame(ls) == FullFrame(ls)

\* `pygame.Surface(..., pygame.SRCALPHA)`: a pixel of the surface is modelled
\* by the number of antialiased glyph blends that lie on it, one pixel per
\* character cell of the text area; a new surface is transparent.
Surface(ls) == [i \in 1..Len(ls) |-> [k \in 1..Len(ls[i]) |-> 0]]

\* draw_background: the gradient lines and the fill overwrite every pixel; a
\* background image is blitted with its alpha, and where it is transparent
\* the pixel keeps what the frames before left there.
draw_background(surface, cfg) ==
    IF cfg.bg_image = "transparent" THEN surface
    ELSE [i \in 1..Len(surface) |-> [k \in 1..Len(surface[i]) |-> 0]]

\* `screen.blit(font.render(..., True, text_color), ...)` for the visible
\* part of every line: an antialiased glyph is blended onto what the pixel
\* holds, until the 8-bit alpha is saturated.
blit_text(surface, visible) ==
    [i \in 1..Len(surface) |->
        [k \in 1..Len(surface[i]) |->
            IF k <= visible[i] THEN Min(surface[i][k] + 1, MaxInk)
            ELSE surface[i][k]]]

BoxFrameCap(ls, cfg) == total_chars(ls) + Len(ls) + cfg.dwell_halfsec * cfg.fps + 2

\* Lines 191-205: the lines are cut to the rows of the box.
BoxBegin ==
    /\ pc = "box_start"
    /\ text_lines' = Slice(lines, max_lines(config))
    /\ current_line' = 0
    /\ current_char' = 0
    /\ frame_number' = 0
    /\ dwell_i' = 0
    /\ screen' = Surface(text_lines')
    /\ saved' = <<>>
    /\ pc' = "box_typing"
    /\ UNCHANGED <<wrapVars, jobVars, runVars, video, pxVars, exportVars>>

\* One iteration of `while current_line < len(text_lines)`: the frame is
\* drawn from the reveal state the iteration starts in.
BoxTypeFrame ==
    /\ pc = "box_typing"
    /\ frame_number < BoxFrameCap(text_lines, config)
    /\ current_line < Len(text_lines)
    /\ LET next == box_advance(current_line, current_char,
                               Len(text_lines[current_line + 1]))
       IN  /\ current_line' = next[1]
           /\ current_char' = next[2]
    /\ video' = Append(video, Visible(text_lines, current_line, current_char))
    /\ screen' = blit_text(draw_background(screen, config),
                           Visible(text_lines, current_line, current_char))
    /\ saved' = Append(saved, [line |-> current_line, chars |-> current_char,
                               pixels |-> screen'])
    /\ frame_number' = frame_number + 1
    /\ UNCHANGED <<pc, wrapVars, jobVars, runVars, pxVars, text_lines, dwell_i, exportVars>>

\* The while loop ends.
BoxTypingEnd ==
    /\ pc = "box_typing"
    /\ current_line >= Len(text_lines)
    /\ pc' = "box_dwell"
    /\ UNCHANGED <<wrapVars, jobVars, runVars, video, pxVars, boxVars, exportVars>>

\* One iteration of `for _ in range(dwell_frames)`.
BoxDwellFrame ==
    /\ pc = "box_dwell"
    /\ dwell_i < dwell_frames(config)
    /\ video' = Append(video, dwell_frame(text_lines))
    /\ screen' = blit_text(draw_background(screen, config), dwell_frame(text_lines))
    /\ saved' = Append(saved, [line |-> current_line, chars |-> current_char,
                               pixels |-> screen'])
    /\ frame_number' = frame_number + 1
    /\ dwell_i' = dwell_i + 1
    /\ UNCHANGED <<pc, wrapVars, jobVars, runVars, pxVars, text_lines, current_line,
                   current_char, exportVars>>

\* `return frame_number, (screen_width, screen_height)`.
BoxReturn ==
    /\ pc = "box_dwell"
    /\ dwell_i >= dwell_frames(config)
    /\ pc' = "done"
    /\ UNCHANGED <<wrapVars, jobVars, runVars, video, pxVars, boxVars, exportVars>>

\* ------------------------------------------------- the reveal runs

\* The characters of a wrapped line that the loops tell apart.
LineChars == {"a", ",", "."}

\* The wrapped lines of k characters: wrap_text returns no empty line, and
\* a line that starts with a space is the placeholder.
LinesOfLen(k) == [1..k -> LineChars] \cup (IF k = 1 THEN {blank_line} ELSE {})

RECURSIVE ListsUpTo(_)
\* The lists of wrapped lines of at most n characters in all.
ListsUpTo(n) ==
    {<<>>} \cup
    UNION {{<<l>> \o rest : l \in LinesOfLen(k), rest \in ListsUpTo(n - k)} : k \in 1..n}

LineLists == ListsUpTo(MaxChars) \ {<<>>}

Dwells == {<<0, 1>>, <<MaxDwell, 1>>, <<MaxDwell, 2>>}

PxConfigs ==
    {[char_speed |-> s, pause_comma |-> p, pause_punctuation |-> IF p = 0 THEN 0 ELSE p + 1,
      dwell_halfsec |-> d[1], fps |-> d[2], sound |-> TRUE] :
        s \in 1..MaxSpeed, p \in {0, MaxPause}, d \in Dwells}

\* What draw_background is given: no image (a gradient or a plain fill), or
\* an image whose pixels over the text are transparent.
Backgrounds == {"None", "transparent"}

BoxConfigs ==
    {[dwell_halfsec |-> d[1], fps |-> d[2], box_h |-> rows * FontHeight, padding |-> pad,
      bg_image |-> bg] :
        d \in Dwells, rows \in 0..MaxRows, pad \in 0..MaxPadding, bg \in Backgrounds}

\* The scenario of the specification: "Hi." under the default configuration.
HiLines == <<<<"H", "i", ".">>>>

PxStart ==
    /\ current_line_index = 0 /\ char_index = 0 /\ frame_counter = 0
    /\ pause_frames = 0 /\ animation_done = FALSE
    /\ total_frames_rendered = 0 /\ start_of_padding_frame = Infinity
    /\ sound_plays = <<>>

BoxIdle ==
    /\ text_lines = <<>> /\ current_line = 0 /\ current_char = 0
    /\ frame_number = 0 /\ dwell_i = 0
    /\ screen = <<>> /\ saved = <<>>

\* A job at the entry of its reveal loop.
JobInit(lineLists, pxConfigs, boxConfigs) ==
    /\ NoWrap /\ NoExport /\ NoRun /\ PxStart
    /\ video = <<>>
    /\ \/ /\ pipeline = "px" /\ pc = "px_loop"
          /\ lines \in lineLists /\ config \in pxConfigs
          /\ BoxIdle
       \/ /\ pipeline = "box" /\ pc = "box_start"
          /\ lines \in lineLists /\ config \in boxConfigs
          /\ text_lines = lines /\ current_line = 0 /\ current_char = 0
          /\ frame_number = 0 /\ dwell_i = 0
          /\ screen = <<>> /\ saved = <<>>

Init ==
    \/ JobInit(LineLists, PxConfigs, BoxConfigs)
    \/ /\ NoWrap /\ NoExport /\ NoRun /\ PxStart /\ BoxIdle
       /\ video = <<>>
       /\ pipeline = "px" /\ pc = "px_loop"
       /\ lines = HiLines /\ config = DEFAULT_CONFIG

Next == PxFrame \/ PxBreak \/ BoxBegin \/ BoxTypeFrame \/ BoxTypingEnd
        \/ BoxDwellFrame \/ BoxReturn

Spec == Init /\ [][Next]_vars

\* ------------------------------------------------- the termination runs

\* Lines of length 0, 1 and 2: a loop is also run on an empty line.
TermLines == {<<>>, <<"a">>, <<",">>, <<".">>, <<"a", ".">>}

TermLineLists == UNION {[1..n -> TermLines] : n \in 1..MaxTermLines}

TermPxConfigs ==
    {[char_speed |-> s, pause_comma |-> p, pause_punctuation |-> IF p = 0 THEN 0 ELSE p + 1,
      dwell_halfsec |-> d[1], fps |-> d[2], sound |-> TRUE] :
        s \in {0, MaxSpeed}, p \in {0, MaxPause}, d \in Dwells}

TermInit == JobInit(TermLineLists, TermPxConfigs, BoxConfigs)

\* The loops are the only thread of their process: a loop that can take a
\* step takes it.
TermSpec == TermInit /\ [][Next]_vars /\ WF_vars(Next)

\* ------------------------------------------------- claims: the reveal loops

\* The lines a pipeline draws: the fixed-box loop draws the lines it kept.
RenderedLines == IF pipeline = "px" THEN lines ELSE text_lines

RECURSIVE Flat(_)
\* The characters of a list of lines, in reveal order.
Flat(ls) == IF ls = <<>> THEN <<>> ELSE Head(ls) \o Flat(Tail(ls))

\* The number of characters frame i of the video shows, 0 before the first.
ShownAt(i) == IF i = 0 THEN 0 ELSE Shown(video[i])

\* C1: when a loop has ended, the number of frames it emitted equals the
\* precomputed total: calculate_total_frames in the pixel-perfect pipeline,
\* total_chars + dwell_frames in generate_frames.
C1_EmittedEqualsPrecomputed ==
    pc = "done" =>
        /\ pipeline = "px" => Len(video) = calculate_total_frames(lines, config)
        /\ pipeline = "box" =>
               frame_number = total_chars(text_lines) + dwell_frames(config)

\* C2: the line "Hi." under framesPerChar 1, commaPause 4, sentencePause 10
\* and a dwell of 2 s at 30 fps makes the pixel-perfect loop emit exactly 72
\* frames before it stops.
C2_HiEmits72Frames ==
    (pc = "done" /\ pipeline = "px" /\ lines = HiLines /\ config = DEFAULT_CONFIG)
        => Len(video) = 72

C4_CommaPauseExact ==
    (pipeline = "px" /\ config.char_speed = 1) =>
        \A i \in 1..Len(video) :
            (/\ ShownAt(i) = ShownAt(i - 1) + 1
             /\ Flat(lines)[ShownAt(i)] = ","
             /\ ShownAt(i) < total_chars(lines))
            => /\ \A j \in (i + 1)..Min(i + config.pause_comma, Len(video)) :
                      video[j] = video[i]
               /\ Len(video) <= i + config.pause_comma =>
                      /\ pause_frames = config.pause_comma - (Len(video) - i)
                      /\ ~animation_done
               /\ Len(video) > i + config.pause_comma =>
                      ShownAt(i + config.pause_comma + 1) = ShownAt(i) + 1

\* "a,a" with a comma pause of MaxPause frames: frame 2 reveals the comma,
\* MaxPause frames repeat it and the next frame reveals the last character.
C4_Witness ==
    /\ pipeline = "px" /\ config.char_speed = 1 /\ config.pause_comma = MaxPause
    /\ lines = <<<<"a", ",", "a">>>>
    /\ Len(video) = 2 + MaxPause + 1
    /\ ShownAt(2) = 2 /\ ShownAt(2 + MaxPause) = 2 /\ ShownAt(2 + MaxPause + 1) = 3

\* C5: in every step of either loop the current line index stays or goes up
\* by one; the per-line character index is 0 after every step that raises the
\* line index, and a step that leaves the line index alone never lowers it.
C5_LineIndexMonotoneCharReset ==
    [][/\ current_line_index' \in {current_line_index, current_line_index + 1}
       /\ current_line_index' = current_line_index + 1 => char_index' = 0
       /\ current_line_index' = current_line_index => char_index' >= char_index
       /\ current_line' \in {current_line, current_line + 1}
       /\ current_line' = current_line + 1 => current_char' = 0
       /\ current_line' = current_line => current_char' >= current_char]_vars

\* A loop is on its second line, one character in, after a first line of
\* two characters or more.
C5_Witness ==
    \/ /\ pipeline = "px" /\ current_line_index = 1 /\ char_index = 1
       /\ Len(lines[1]) >= 2
    \/ /\ pipeline = "box" /\ pc = "box_typing" /\ current_line = 1 /\ current_char = 1
       /\ Len(text_lines[1]) >= 2

\* C6: every run of a reveal loop, on any lines (empty ones included) and any
\* timing configuration of non-negative values, reaches the end of its loop.
C6_LoopTerminates == <>(pc = "done")

\* A pixel-perfect run over a list that holds an empty line has ended, under
\* a char_speed of 0.
C6_Witness ==
    /\ pc = "done" /\ pipeline = "px"
    /\ \E i \in 1..Len(lines) : lines[i] = <<>>
    /\ config.char_speed = 0

\* C16: a fixed-box job whose box height is <= 0, or whose padding exceeds
\* the box (2 * padding larger than the box height), is rejected before any
\* frame is drawn or written.
C16_BadGeometryWritesNoFrame ==
    (pipeline = "box" /\ (config.box_h <= 0 \/ 2 * config.padding > config.box_h)) =>
        video = <<>> /\ frame_number = 0

\* The characters the pixel-perfect loop has revealed so far.
RevealedChars ==
    SubSeq(Flat(lines), 1,
           total_chars(SubSeq(lines, 1, current_line_index)) + char_index)

NotSpace(c) == ~IsSpace(c)

\* C20: the typing sound has been played exactly once for each revealed
\* character that is not whitespace, and for nothing else.
C20_SoundOncePerNonSpaceChar ==
    (pipeline = "px" /\ config.sound) =>
        sound_plays = SelectSeq(RevealedChars, NotSpace)

\* C21: a pause budget that is not spent yet belongs to a character of the
\* current line: the line index has not moved past the comma or terminator
\* that set the pause, and the run is not dwelling.
C21_PauseServedBeforeLineAdvance ==
    (pipeline = "px" /\ pause_frames > 0) =>
        /\ ~animation_done
        /\ current_line_index < Len(lines)
        /\ char_index >= 1
        /\ punctuation_pause(lines[current_line_index + 1][char_index], config) > 0

\* C22: with N wrapped lines and room for M = (box_h - 2 * padding) \div
\* FontHeight lines, generate_frames keeps the first min(N, M) lines, and
\* every frame it draws has these line slots and no other.
C22_RendersFirstMinLines ==
    (pipeline = "box" /\ pc # "box_start") =>
        /\ text_lines = SubSeq(lines, 1, Min(Len(lines), max_lines(config)))
        /\ \A i \in 1..Len(video) :
               Len(video[i]) = Max(0, Min(Len(lines), max_lines(config)))

\* C23: two frame files the fixed-box pipeline saved at the same reveal state
\* hold the same pixels, whatever was drawn on the surface before.
C23_FrameIsFunctionOfRevealState ==
    \A i, j \in 1..Len(saved) :
        (saved[i].line = saved[j].line /\ saved[i].chars = saved[j].chars)
            => saved[i].pixels = saved[j].pixels

\* C24: the frame emitted last (every frame is, in the state it is emitted
\* in) shows the lines before some line in full, a prefix of that line and
\* nothing after it, for the pixel-perfect loop those of the current reveal
\* state; and it shows the characters of the frame before it, or one more.
C24_FrameShowsRevealedPrefix ==
    video # <<>> =>
        LET n == Len(video)
            ls == RenderedLines
        IN  /\ \E l \in 0..Len(ls) :
                   \E c \in 0..(IF l < Len(ls) THEN Len(ls[l + 1]) ELSE 0) :
                       \A k \in 1..Len(ls) :
                           video[n][k] = IF k - 1 < l THEN Len(ls[k])
                                         ELSE IF k - 1 = l THEN c ELSE 0
            /\ Shown(video[n]) - ShownAt(n - 1) \in {0, 1}
            /\ pipeline = "px" =>
                   video[n] = Visible(lines, current_line_index, char_index)

\* A finished run over two lines or more whose last frame shows all of them.
C24_Witness ==
    /\ pc = "done"
    /\ Len(RenderedLines) >= 2 /\ total_chars(RenderedLines) >= 3
    /\ video # <<>>
    /\ video[Len(video)] = FullFrame(RenderedLines)

\* ------------------------------------------------- the layout specification

WrapInit ==
    /\ pc = "wrap"
    /\ text \in Texts /\ max_width \in Widths
    /\ caller = "none" /\ wrap_input = <<>> /\ wrapped = <<>>
    /\ NoJob /\ PxStart /\ BoxIdle /\ NoExport /\ NoRun

WrapNext == PxWrap \/ BoxWrap

WrapSpec == WrapInit /\ [][WrapNext]_vars

\* ------------------------------------------------- claims: wrap_text

\* The space-separated words of a line: the non-empty pieces between spaces.
WordCount(line) ==
    LET pieces == split(line, " ")
    IN  Cardinality({i \in 1..Len(pieces) : pieces[i] # <<>>})

AllSpace(s) == \A i \in 1..Len(s) : IsSpace(s[i])

LineBreaks(s) == Cardinality({i \in 1..Len(s) : s[i] = "\n"})

\* C8 as stated: every line wrap_text returns measures at most max_width or
\* consists of exactly one word.
C8_LineFitsOrOneWord ==
    pc = "wrapped" =>
        \A i \in 1..Len(wrapped) :
            measure(wrapped[i]) <= max_width \/ WordCount(wrapped[i]) = 1

\* C8 as amended: every line wrap_text returns measures at most max_width,
\* or consists of exactly one word, or is the blank placeholder " " (which
\* holds no word and is returned whatever max_width is).
C8_LineFitsOrOneWordOrBlank ==
    pc = "wrapped" =>
        \A i \in 1..Len(wrapped) :
            \/ measure(wrapped[i]) <= max_width
            \/ WordCount(wrapped[i]) = 1
            \/ wrapped[i] = blank_line

\* wrap_text returned a first line that fits and a second line of one word
\* wider than max_width.
C8_Witness ==
    /\ pc = "wrapped"
    /\ max_width >= 1
    /\ Len(wrapped) = 2
    /\ wrapped[1] # blank_line /\ measure(wrapped[1]) <= max_width
    /\ WordCount(wrapped[2]) = 1 /\ measure(wrapped[2]) > max_width

\* C9: wrap_text returns at least one line, and no line it returns is the
\* empty string.
C9_AtLeastOneLineNoneEmpty ==
    pc = "wrapped" =>
        /\ Len(wrapped) >= 1
        /\ \A i \in 1..Len(wrapped) : wrapped[i] # <<>>

\* wrap_text was given " a" under a max_width of 0: the word does not fit,
\* the empty current line was not committed, and the word is the only line.
C9_Witness ==
    /\ pc = "wrapped" /\ caller = "generate.py"
    /\ wrap_input = <<" ", "a">> /\ max_width = 0
    /\ wrapped = <<<<"a">>>>

\* C10 as stated: for a text that is empty or holds only whitespace,
\* wrap_text returns exactly one line, the blank placeholder.
C10_BlankTextOnePlaceholder ==
    (pc = "wrapped" /\ AllSpace(wrap_input)) => wrapped = <<blank_line>>

\* C10 as amended: for a text that is empty or holds only whitespace,
\* wrap_text returns blank placeholder lines only, one per paragraph (one
\* more than the text has line breaks): exactly one line when the text holds
\* no line break.
C10_BlankTextPlaceholderPerParagraph ==
    (pc = "wrapped" /\ AllSpace(wrap_input)) =>
        /\ Len(wrapped) = LineBreaks(wrap_input) + 1
        /\ \A i \in 1..Len(wrapped) : wrapped[i] = blank_line

\* wrap_text was given a whitespace-only text with a line break in it and
\* returned two placeholders.
C10_Witness ==
    /\ pc = "wrapped"
    /\ wrap_input = <<" ", "\n", "\t">>
    /\ wrapped = <<blank_line, blank_line>>

\* The lines of one paragraph, wrapped on its own by the wrap_text called.
ParagraphLines(paragraph) ==
    IF caller = "generate.py" THEN wrap_text(paragraph, max_width)
    ELSE gradient_wrap_text(paragraph, max_width)

\* The paragraphs of the text wrap_text received: the pieces between its
\* hard line breaks.
Paragraphs == split(wrap_input, "\n")

WordsOf(s) == SelectSeq(split(s, " "), LAMBDA w : w # <<>>)

\* The words of the lines wrap_text returned, placeholder lines left out.
OutputWords ==
    Flat([i \in 1..Len(wrapped) |->
            IF wrapped[i] = blank_line THEN <<>> ELSE WordsOf(wrapped[i])])

\* A word wider than max_width is alone on its line.
WideWordsAlone ==
    \A i \in 1..Len(wrapped) :
        \A k \in 1..Len(WordsOf(wrapped[i])) :
            (wrapped[i] # blank_line /\ measure(WordsOf(wrapped[i])[k]) > max_width)
                => wrapped[i] = WordsOf(wrapped[i])[k]

\* C25 as stated: the words of the returned lines are, in order, the
\* non-empty space-separated words of every paragraph of the input, and a
\* word wider than max_width is alone on its line.
C25_WordsOfEveryParagraphKept ==
    pc = "wrapped" =>
        /\ OutputWords = Flat([i \in 1..Len(Paragraphs) |-> WordsOf(Paragraphs[i])])
        /\ WideWordsAlone

\* C25 as the code has it: the words of the returned lines are, in order, the
\* non-empty space-separated words of the paragraphs that hold a character
\* other than whitespace (a paragraph of spaces and tabs only gives the
\* placeholder and its characters are dropped), and a word wider than
\* max_width is alone on its line.
C25_WordsOfNonBlankParagraphsKept ==
    pc = "wrapped" =>
        /\ OutputWords = Flat([i \in 1..Len(Paragraphs) |->
                                 IF AllSpace(Paragraphs[i]) THEN <<>>
                                 ELSE WordsOf(Paragraphs[i])])
        /\ WideWordsAlone

\* wrap_text returned two lines or more for a text of two words or more, one
\* of them wider than max_width, and a paragraph of whitespace.
C25_Witness ==
    /\ pc = "wrapped"
    /\ Len(OutputWords) >= 2 /\ Len(wrapped) >= 3
    /\ \E k \in 1..Len(OutputWords) : measure(OutputWords[k]) > max_width
    /\ \E i \in 1..Len(Paragraphs) : AllSpace(Paragraphs[i])

\* ------------------------------------------------- gradient.py, the frame files

\* The field width of `frame_{frame_number:04d}.png` and of frame_%04d.png.
FrameDigits == 4

RECURSIVE Pow10(_)
Pow10(n) == IF n = 0 THEN 1 ELSE 10 * Pow10(n - 1)

RECURSIVE Digits(_)
\* The decimal digits of a natural number, the most significant first.
Digits(k) == IF k < 10 THEN <<k>> ELSE Digits(k \div 10) \o <<k % 10>>

\* `{frame_number:04d}`: zero-padded to FrameDigits digits, longer when the
\* number needs more.
format_04d(k) ==
    LET d == Digits(k)
    IN  IF Len(d) >= FrameDigits THEN d
        ELSE [i \in 1..(FrameDigits - Len(d)) |-> 0] \o d

\* f"frame_{frame_number:04d}.png" as the code points of its characters.
frame_name(k) ==
    <<102, 114, 97, 109, 101, 95>>
    \o [i \in 1..Len(format_04d(k)) |-> 48 + format_04d(k)[i]]
    \o <<46, 112, 110, 103>>

\* `f.endswith(".png")`.
ends_with_png(name) ==
    Len(name) >= 4 /\ SubSeq(name, Len(name) - 3, Len(name)) = <<46, 112, 110, 103>>

RECURSIVE str_less_from(_, _, _)
str_less_from(a, b, i) ==
    IF i > Len(a) THEN i <= Len(b)
    ELSE IF i > Len(b) THEN FALSE
    ELSE IF a[i] # b[i] THEN a[i] < b[i]
    ELSE str_less_from(a, b, i + 1)

\* Python's `<` on str: by code point, a proper prefix first.
str_less(a, b) == str_less_from(a, b, 1)

\* `sorted([f for f in os.listdir(temp_dir) if f.endswith(".png")])`.
sorted_frame_files(listing) == SortSeq(SelectSeq(listing, ends_with_png), str_less)

\* What generate_frames leaves in temp_dir after frame_number saves, as
\* os.listdir gives it: in an order of the file system's (here the order of
\* creation, the last two files swapped).
saved_frames(n) ==
    [i \in 1..n |-> frame_name(IF n >= 2 /\ i >= n - 1 THEN 2 * n - 2 - i ELSE i - 1)]

\* The frame counts of the export runs: the small ones, and the first that
\* does not fit FrameDigits digits.
FrameCounts == (0..MaxFrames) \cup {Pow10(FrameDigits) + 1}

\* export_mp4_cv2, lines 284-287: the frames are read in sorted name order.
ExportMp4Cv2 ==
    /\ pc = "export"
    /\ exported' = sorted_frame_files(temp_dir)
    /\ pc' = "exported_mp4_cv2"
    /\ UNCHANGED <<wrapVars, jobVars, runVars, video, pxVars, boxVars, temp_dir>>

\* export_gif, lines 320-330: the same order; images[0] needs a frame.
ExportGif ==
    /\ pc = "export"
    /\ exported' = sorted_frame_files(temp_dir)
    /\ pc' = IF sorted_frame_files(temp_dir) = <<>> THEN "export_failed" ELSE "exported_gif"
    /\ UNCHANGED <<wrapVars, jobVars, runVars, video, pxVars, boxVars, temp_dir>>

\* export_webm and export_mp4_ffmpeg: ffmpeg reads frame_%04d.png by number,
\* from 0 up to the first number that has no file.
ExportFfmpeg ==
    /\ pc = "export"
    /\ exported' = [k \in 1..frame_number |-> frame_name(k - 1)]
    /\ pc' = "exported_ffmpeg"
    /\ UNCHANGED <<wrapVars, jobVars, runVars, video, pxVars, boxVars, temp_dir>>

\* generate_frames has returned frame_number and left that many files.
ExportInit ==
    /\ pc = "export"
    /\ NoWrap /\ NoRun /\ PxStart
    /\ pipeline = "box" /\ lines = <<>> /\ config = [fps |-> 1] /\ video = <<>>
    /\ text_lines = <<>> /\ current_line = 0 /\ current_char = 0 /\ dwell_i = 0
    /\ screen = <<>> /\ saved = <<>>
    /\ frame_number \in FrameCounts
    /\ temp_dir = saved_frames(frame_number)
    /\ exported = <<>>

ExportNext == ExportMp4Cv2 \/ ExportGif \/ ExportFfmpeg

ExportSpec == ExportInit /\ [][ExportNext]_vars

\* ------------------------------------------------- claims: the sinks

\* C7: the exporters of the fixed-box pipeline read the saved frame files in
\* the order generate_frames numbered them, whatever the number of frames:
\* frame k before frame k + 1, none skipped, none repeated.
C7_ExportOrderIsFrameOrder ==
    pc \in {"exported_mp4_cv2", "exported_gif", "exported_ffmpeg", "export_failed"} =>
        exported = [k \in 1..frame_number |-> frame_name(k - 1)]

\* ------------------------------------------------- load_config

\* config.json as load_config finds it: no file, a file that is not JSON, a
\* JSON object, a JSON array, a JSON number.
ConfigFiles ==
    {[kind |-> "absent"],
     [kind |-> "not_json"],
     [kind |-> "object", value |-> [fps |-> 60]],
     [kind |-> "array", items |-> <<>>],
     [kind |-> "array", items |-> <<1, 2>>],
     [kind |-> "number"]}

\* `config.update(user_config)`: a mapping is merged over the defaults; an
\* iterable is taken as a sequence of key/value pairs, so the empty array
\* changes nothing and an array of numbers is a TypeError; a number is not
\* iterable, a TypeError too.
dict_update(cfg, user_config) ==
    IF user_config.kind = "object"
    THEN [raised |-> "none", config |-> user_config.value @@ cfg]
    ELSE IF user_config.kind = "array" /\ user_config.items = <<>>
    THEN [raised |-> "none", config |-> cfg]
    ELSE [raised |-> "TypeError", config |-> cfg]

\* load_config, generate.py lines 48-57 (gradient.py lines 53-62 are the
\* same code): only json.JSONDecodeError and IOError are caught.
load_config(file) ==
    IF file.kind = "absent" THEN [raised |-> "none", config |-> DEFAULT_CONFIG]
    ELSE IF file.kind = "not_json" THEN [raised |-> "none", config |-> DEFAULT_CONFIG]
    ELSE dict_update(DEFAULT_CONFIG, file)

\* ------------------------------------------------- a run of an engine script

\* Most files a batch pattern matches.
MaxFiles == 2

\* What `open(input_file, "r", encoding="utf-8")` and f.read() do on a file:
\* the text is read, FileNotFoundError (no file, or a dangling link that a
\* glob pattern matched), or another error (PermissionError,
\* UnicodeDecodeError).
FileStates == {"ok", "missing", "unreadable"}

\* What glob(pattern) can give: no file, or up to MaxFiles files.
BatchFiles == UNION {[1..n -> FileStates] : n \in 0..MaxFiles}

\* What the run has not looked at yet.
UnknownEnv ==
    [config_file |-> [kind |-> "unknown"], font |-> "unknown", portrait |-> "unknown",
     background_image |-> "unknown", frames |-> "unknown", ffmpeg |-> "unknown",
     HAS_CV2 |-> "unknown", HAS_PIL |-> "unknown"]

\* The command lines: gradient.py takes --format, generate.py writes mp4.
ArgLists ==
    [engine : {"generate.py"}, dry_run : BOOLEAN, batch : BOOLEAN, output_format : {"mp4"}]
    \cup [engine : {"gradient.py"}, dry_run : BOOLEAN, batch : BOOLEAN,
          output_format : {"webm", "mp4", "gif"}]

\* A front end about to start an engine script; the command line starts it
\* itself (`if __name__ == "__main__": main()`).
RunInit ==
    /\ NoWrap /\ NoExport /\ PxStart /\ BoxIdle /\ NoJob
    /\ \E a \in ArgLists :
          /\ engine = a.engine
          /\ args = [dry_run |-> a.dry_run, batch |-> a.batch,
                     output_format |-> a.output_format]
    /\ frontend \in {"cli", "gui", "tui"}
    /\ pc = IF frontend = "cli" THEN "main" ELSE "ui"
    /\ env = UnknownEnv
    /\ files = <<>> /\ file_index = 0 /\ events = {}
    /\ returned = "none" /\ returncode = "none" /\ reported = "none"
    /\ NoHeap /\ NoGui

\* What a run leaves alone outside its own variables.
IdleParts == <<wrapVars, pipeline, lines, video, pxVars, boxVars, exportVars,
               heap, workers, tk_calls>>

\* gui.py run_command, lines 922-926: the worker sets the status and starts
\* the script with subprocess.run.
GuiRunCommand ==
    /\ pc = "ui" /\ frontend = "gui"
    /\ reported' = "Running..."
    /\ pc' = "main"
    /\ UNCHANGED <<IdleParts, config, engine, frontend, args, env, files, file_index,
                   events, returned, returncode>>

\* tui.py run_command, lines 465-478: the command is shown and started.
TuiRunCommand ==
    /\ pc = "ui" /\ frontend = "tui"
    /\ pc' = "main"
    /\ UNCHANGED <<IdleParts, config, runVars>>

\* main, `config = load_config()`: an exception load_config does not catch
\* ends the script with a traceback and exit status 1.
MainLoadConfig ==
    /\ pc = "main"
    /\ \E file \in ConfigFiles :
          LET loaded == load_config(file)
          IN  /\ env' = [env EXCEPT !.config_file = file]
              /\ IF loaded.raised = "none"
                 THEN /\ config' = loaded.config
                      /\ pc' = "dispatch"
                      /\ returncode' = returncode
                 ELSE /\ config' = config
                      /\ pc' = "exited"
                      /\ returncode' = "1"
    /\ UNCHANGED <<IdleParts, engine, frontend, args, files, file_index, events,
                   returned, reported>>

\* main, `if args.batch: process_batch(...); return`, and process_batch up to
\* its loop: glob gives the files; with no file it prints and returns.
MainBatch ==
    /\ pc = "dispatch" /\ args.batch
    /\ files' \in BatchFiles
    /\ file_index' = 0
    /\ IF files' = <<>>
       THEN pc' = "exited" /\ returncode' = "0"
       ELSE pc' = "call" /\ returncode' = returncode
    /\ UNCHANGED <<IdleParts, config, engine, frontend, args, env, events, returned,
                   reported>>

\* main without --batch: one call of generate_video, for args.input.
MainSingle ==
    /\ pc = "dispatch" /\ ~args.batch
    /\ \E f \in FileStates : files' = <<f>>
    /\ file_index' = 0
    /\ pc' = "call"
    /\ UNCHANGED <<IdleParts, config, engine, frontend, args, env, events, returned,
                   returncode, reported>>

\* The dry_run argument of a call: main passes args.dry_run, process_batch
\* passes nothing (the default, False).
dry_run_arg(a) == a.dry_run /\ ~a.batch

\* generate_video is entered for the next file.
CallGenerateVideo ==
    /\ pc = "call" /\ file_index < Len(files)
    /\ file_index' = file_index + 1
    /\ events' = {}
    /\ returned' = "none"
    /\ env' = [UnknownEnv EXCEPT !.config_file = env.config_file]
    /\ pc' = IF engine = "generate.py" THEN "px_read" ELSE "gr_read"
    /\ UNCHANGED <<IdleParts, config, engine, frontend, args, files, returncode, reported>>

\* A step of generate_video that goes on to the next one.
Continue(did, next_pc) ==
    /\ events' = events \cup did
    /\ pc' = next_pc
    /\ UNCHANGED <<returned, returncode>>

\* `return value` in generate_video.
Return(did, value) ==
    /\ events' = events \cup did
    /\ returned' = value
    /\ pc' = "returned"
    /\ UNCHANGED returncode

\* An exception nothing catches (generate_video, process_batch and main hold
\* no handler beside the one of the read), or sys.exit(1): the script ends
\* with exit status 1.
Raise(did) ==
    /\ events' = events \cup did
    /\ pc' = "exited"
    /\ returncode' = "1"
    /\ UNCHANGED returned

\* The read of the input file: `except FileNotFoundError` is the only handler.
\* (faulty variant: a missing file read as an empty text)
read_input_missing_as_empty(file) == IF file = "unreadable" THEN "raise" ELSE "read"
read_input(file) ==
    IF file = "ok" THEN "read"
    ELSE IF file = "missing" THEN "return None"
    ELSE "raise"

\* `if dry_run:`.
\* (faulty variant: the test left out)
dry_run_ignored(dry_run) == FALSE
dry_run_stops(dry_run) == dry_run

RunFixed == <<IdleParts, config, engine, frontend, args, files, file_index, reported>>

\* ------------------------------------------------- generate.py generate_video

\* Lines 191-197.
PxReadInput ==
    /\ pc = "px_read"
    /\ LET outcome == read_input(files[file_index])
       IN  IF outcome = "read" THEN Continue({"Loaded text"}, "px_find_assets")
           ELSE IF outcome = "return None" THEN Return({"ERROR: File not found"}, "None")
           ELSE Raise({"open raised"})
    /\ UNCHANGED <<RunFixed, env>>

\* Lines 199-205, find_assets: the font is the override (whether or not the
\* file exists) or a .ttf/.otf of the directory; without either, no font.
PxFindAssets ==
    /\ pc = "px_find_assets"
    /\ \E font \in {"found", "bad_override", "none"} :
          /\ env' = [env EXCEPT !.font = font]
          /\ IF font = "none" THEN Return({"ERROR: No font file"}, "None")
             ELSE Continue({}, "px_load")
    /\ UNCHANGED RunFixed

\* Lines 207-219: pygame.font.Font and pygame.image.load raise on a path
\* that does not exist; the portrait path is the override (whether or not
\* the file exists) or an image of the directory; the sound file is loaded
\* only if it exists.
PxLoadAssets ==
    /\ pc = "px_load"
    /\ IF env.font = "bad_override"
       THEN /\ Raise({"pygame.init", "pygame.font.Font raised"})
            /\ env' = env
       ELSE \E portrait \in {"none", "found", "bad_path"} :
               /\ env' = [env EXCEPT !.portrait = portrait]
               /\ IF portrait = "bad_path"
                  THEN Raise({"pygame.init", "font loaded", "pygame.image.load raised"})
                  ELSE Continue({"pygame.init", "font loaded"}
                                    \cup (IF portrait = "found" THEN {"portrait loaded"} ELSE {}),
                                "px_layout")
    /\ UNCHANGED RunFixed

\* Lines 221-243: the text is wrapped, the canvas and the frame total are
\* computed and printed.
PxLayout ==
    /\ pc = "px_layout"
    /\ Continue({"wrap_text", "Lines printed"}, "px_dry_run")
    /\ UNCHANGED <<RunFixed, env>>

\* Lines 245-250.
PxDryRun ==
    /\ pc = "px_dry_run"
    /\ IF dry_run_stops(dry_run_arg(args))
       THEN Return({"Duration printed", "pygame.quit"}, "None")
       ELSE Continue({}, "px_open")
    /\ UNCHANGED <<RunFixed, env>>

\* Lines 252-265: the drawing surface and the video writer.
PxOpenSinks ==
    /\ pc = "px_open"
    /\ Continue({"pygame.Surface", "cv2.VideoWriter"}, "px_render")
    /\ UNCHANGED <<RunFixed, env>>

\* Lines 280-333: the reveal loop; it draws and writes at least one frame.
PxRender ==
    /\ pc = "px_render"
    /\ Continue({"frame drawn", "frame written"}, "px_finish")
    /\ UNCHANGED <<RunFixed, env>>

\* Lines 341-356.
PxFinish ==
    /\ pc = "px_finish"
    /\ Return({"Video saved", "pygame.quit"}, "output_file")
    /\ UNCHANGED <<RunFixed, env>>

\* ------------------------------------------------- gradient.py generate_video

\* ffmpeg ran and wrote its file: it is installed, it did not fail, and
\* frame_0000.png is there for it to read.
ffmpeg_wrote(e) == e.ffmpeg = "ok" /\ e.frames = "some"

\* export_webm, lines 252-272: the file name, or None on CalledProcessError.
export_webm(e) == IF ffmpeg_wrote(e) THEN "webm" ELSE "None"

\* export_mp4_ffmpeg, lines 294-311.
export_mp4_ffmpeg(e) == IF ffmpeg_wrote(e) THEN "mp4" ELSE "None"

\* export_mp4_cv2, lines 275-291: None without OpenCV.
export_mp4_cv2(e) == IF e.HAS_CV2 = "yes" THEN "mp4" ELSE "None"

\* export_gif, lines 314-332: None without PIL; `images[0]` is an IndexError
\* when no frame was saved.
export_gif(e) ==
    IF e.HAS_PIL = "no" THEN "None"
    ELSE IF e.frames = "none" THEN "IndexError"
    ELSE "gif"

\* generate_video, lines 371-388: the exporter for config["output_format"].
export(output_format, e) ==
    IF output_format = "webm"
    THEN IF e.ffmpeg # "absent" THEN export_webm(e) ELSE export_mp4_cv2(e)
    ELSE IF output_format = "mp4"
    THEN LET output_file == IF e.ffmpeg # "absent" THEN export_mp4_ffmpeg(e) ELSE "None"
         IN  IF output_file = "None" THEN export_mp4_cv2(e) ELSE output_file
    ELSE export_gif(e)

\* The file an exporter wrote, as an event of the call.
Written(output_file) ==
    IF output_file = "webm" THEN {"webm written"}
    ELSE IF output_file = "mp4" THEN {"mp4 written"}
    ELSE IF output_file = "gif" THEN {"gif written"}
    ELSE {}

\* Lines 336-341.
GrReadInput ==
    /\ pc = "gr_read"
    /\ LET outcome == read_input(files[file_index])
       IN  IF outcome = "read" THEN Continue({"Loaded text"}, "gr_load_font")
           ELSE IF outcome = "return None" THEN Return({"ERROR: File not found"}, "None")
           ELSE Raise({"open raised"})
    /\ UNCHANGED <<RunFixed, env>>

\* Lines 343-344 and load_font, lines 114-121: an override that does not
\* exist is passed over for a font of the directory; without any font,
\* load_font prints and calls sys.exit(1).
GrLoadFont ==
    /\ pc = "gr_load_font"
    /\ \E font \in {"found", "none"} :
          /\ env' = [env EXCEPT !.font = font]
          /\ IF font = "none" THEN Raise({"pygame.init", "ERROR: No font file", "sys.exit"})
             ELSE Continue({"pygame.init", "font loaded"}, "gr_layout")
    /\ UNCHANGED RunFixed

\* Lines 345-354: the text is wrapped; the background image is loaded only
\* if it is configured and the file exists.
GrLayout ==
    /\ pc = "gr_layout"
    /\ \E background_image \in {"none", "found", "bad_path"} :
          /\ env' = [env EXCEPT !.background_image = background_image]
          /\ Continue({"wrap_text", "Lines printed"}
                          \cup (IF background_image = "found" THEN {"background loaded"} ELSE {}),
                      "gr_dry_run")
    /\ UNCHANGED RunFixed

\* Lines 356-362.
GrDryRun ==
    /\ pc = "gr_dry_run"
    /\ IF dry_run_stops(dry_run_arg(args))
       THEN Return({"Duration printed", "pygame.quit"}, "None")
       ELSE Continue({}, "gr_makedirs")
    /\ UNCHANGED <<RunFixed, env>>

\* Lines 364-365.
GrMakeTempDir ==
    /\ pc = "gr_makedirs"
    /\ Continue({"os.makedirs"}, "gr_frames")
    /\ UNCHANGED <<RunFixed, env>>

\* Lines 367-369, generate_frames: it saves no frame when it kept no line
\* and the dwell is 0 frames, and at least one otherwise.
GrGenerateFrames ==
    /\ pc = "gr_frames"
    /\ \E frames \in {"none", "some"} :
          /\ env' = [env EXCEPT !.frames = frames]
          /\ Continue({"pygame.Surface"}
                          \cup (IF frames = "some" THEN {"frame drawn", "frame written"} ELSE {}),
                      "gr_export")
    /\ UNCHANGED RunFixed

\* Lines 371-387: check_ffmpeg, then the exporter.
GrExport ==
    /\ pc = "gr_export"
    /\ \E ffmpeg \in {"absent", "ok", "fails"}, cv2 \in {"yes", "no"}, pil \in {"yes", "no"} :
          /\ env' = [env EXCEPT !.ffmpeg = ffmpeg, !.HAS_CV2 = cv2, !.HAS_PIL = pil]
          /\ LET output_file == export(args.output_format, env')
             IN  IF output_file = "IndexError" THEN Raise({"exporter called", "export_gif raised"})
                 ELSE Continue({"exporter called"} \cup Written(output_file), "gr_cleanup")
    /\ UNCHANGED RunFixed

\* Lines 389-397.
GrCleanup ==
    /\ pc = "gr_cleanup"
    /\ IF Written(export(args.output_format, env)) # {}
       THEN Return({"shutil.rmtree", "pygame.quit", "SUCCESS"}, "output_file")
       ELSE Return({"shutil.rmtree", "pygame.quit"}, "None")
    /\ UNCHANGED <<RunFixed, env>>

\* ------------------------------------------------- process_batch, main, the front ends

\* process_batch, `for f in files`: the next file, whatever the call returned.
ProcessBatchNext ==
    /\ pc = "returned" /\ file_index < Len(files)
    /\ pc' = "call"
    /\ UNCHANGED <<IdleParts, config, runVars>>

\* main returns (after the one call, or after process_batch): the script
\* ends with exit status 0, whatever generate_video returned.
MainReturn ==
    /\ pc = "returned" /\ file_index >= Len(files)
    /\ returncode' = "0"
    /\ pc' = "exited"
    /\ UNCHANGED <<IdleParts, config, engine, frontend, args, env, files, file_index,
                   events, returned, reported>>

\* gui.py run_command and show_result, lines 927-943.
GuiShowResult ==
    /\ pc = "exited" /\ frontend = "gui"
    /\ reported' = IF returncode = "0" THEN "Done" ELSE "Error"
    /\ pc' = "reported"
    /\ UNCHANGED <<IdleParts, config, engine, frontend, args, env, files, file_index,
                   events, returned, returncode>>

\* tui.py run_command, lines 478-485.
TuiReport ==
    /\ pc = "exited" /\ frontend = "tui"
    /\ reported' = IF returncode = "0" THEN "Done!" ELSE "Command failed"
    /\ pc' = "reported"
    /\ UNCHANGED <<IdleParts, config, engine, frontend, args, env, files, file_index,
                   events, returned, returncode>>

RunNext ==
    \/ GuiRunCommand \/ TuiRunCommand \/ MainLoadConfig \/ MainBatch \/ MainSingle
    \/ CallGenerateVideo
    \/ PxReadInput \/ PxFindAssets \/ PxLoadAssets \/ PxLayout \/ PxDryRun
    \/ PxOpenSinks \/ PxRender \/ PxFinish
    \/ GrReadInput \/ GrLoadFont \/ GrLayout \/ GrDryRun \/ GrMakeTempDir
    \/ GrGenerateFrames \/ GrExport \/ GrCleanup
    \/ ProcessBatchNext \/ MainReturn \/ GuiShowResult \/ TuiReport

RunSpec == RunInit /\ [][RunNext]_vars

\* ------------------------------------------------- claims: the runs

\* The dialogue file of the current (or last) call of generate_video.
InputFile == files[file_index]

\* The script has ended.
Ended == pc \in {"exited", "reported"}

\* What a call does beyond reading, measuring and printing: the drawing
\* surface, the sinks, the frames, the encoders, the written files.
RenderEvents ==
    {"pygame.Surface", "cv2.VideoWriter", "os.makedirs", "frame drawn", "frame written",
     "exporter called", "webm written", "mp4 written", "gif written", "Video saved"}

\* C12: when a batch has ended, generate_video has been called for every
\* file the pattern matched, whatever happened to the files before.
C12_BatchProcessesEveryFile ==
    (args.batch /\ Ended) => file_index = Len(files)

\* C13: a call of generate_video whose dialogue file does not exist does
\* nothing but print the error (no pygame.init, no wrap_text, no surface,
\* writer, directory, frame or output file) and returns None.
C13_MissingInputAbortsFirst ==
    (file_index >= 1 /\ InputFile = "missing") =>
        /\ events \subseteq {"ERROR: File not found"}
        /\ pc \in {"px_read", "gr_read"} \/ returned = "None"
        /\ returncode # "1"

\* A call for a missing file has returned None after printing the error.
C13_Witness ==
    /\ pc = "returned" /\ InputFile = "missing"
    /\ returned = "None" /\ events = {"ERROR: File not found"}

\* The one job of a run without --batch failed: no input file, no usable
\* font, or an export that gave no output file.
JobFailed ==
    /\ ~args.batch /\ file_index = 1
    /\ \/ InputFile = "missing"
       \/ env.font \in {"none", "bad_override"}
       \/ "exporter called" \in events /\ returned # "output_file"

\* C14: when the one job of a run failed, the script ends with a non-zero
\* exit status and the front end reports an error, never "Done".
C14_FailedJobSurfaced ==
    (Ended /\ JobFailed) =>
        /\ returncode = "1"
        /\ reported \notin {"Done", "Done!"}

\* C15: a call that finds no usable font draws no frame and returns no
\* output file; a call that finds no portrait or background image (none
\* discovered, or a configured path that does not exist) goes on without it:
\* the image raises nothing, and the call ends only after the layout.
C15_FontFatalImagesOptional ==
    file_index >= 1 =>
        /\ env.font \in {"none", "bad_override"} =>
              "frame drawn" \notin events /\ returned # "output_file"
        /\ (env.portrait \in {"none", "bad_path"}
                \/ env.background_image \in {"none", "bad_path"}) =>
              /\ "pygame.image.load raised" \notin events
              /\ pc \in {"returned", "exited", "reported"} => "wrap_text" \in events

\* C17: a fixed-box call that found no ffmpeg returns an mp4 written by
\* OpenCV when mp4 was asked for, and returns None with no file written when
\* webm was asked for; a call whose webm backend failed returns None; success
\* is printed only for a written file.
C17_NoEncoderFallsBackOrFails ==
    (engine = "gradient.py" /\ pc = "returned" /\ "exporter called" \in events) =>
        /\ (env.ffmpeg = "absent" /\ args.output_format = "mp4" /\ env.HAS_CV2 = "yes") =>
              returned = "output_file" /\ "mp4 written" \in events
        /\ (env.ffmpeg = "absent" /\ args.output_format = "webm") =>
              /\ returned = "None"
              /\ events \cap {"webm written", "mp4 written", "gif written"} = {}
        /\ (env.ffmpeg = "fails" /\ args.output_format = "webm") => returned = "None"
        /\ "SUCCESS" \in events =>
              events \cap {"webm written", "mp4 written", "gif written"} # {}

C19_BadConfigGivesDefaults ==
    env.config_file.kind \in {"absent", "not_json", "array", "number"} =>
        /\ load_config(env.config_file) = [raised |-> "none", config |-> DEFAULT_CONFIG]
        /\ config = DEFAULT_CONFIG
        /\ ~(file_index = 0 /\ returncode = "1")

\* C27: when a call of generate_video has ended, by a return, by an
\* exception or by sys.exit, what it acquired is released: pygame.quit() has
\* followed pygame.init(), the video writer that was opened is released, the
\* frame directory that was made is removed.
C27_ResourcesReleasedOnEveryEnd ==
    (file_index >= 1 /\ pc \in {"returned", "exited", "reported"}) =>
        /\ "pygame.init" \in events => "pygame.quit" \in events
        /\ "cv2.VideoWriter" \in events => "Video saved" \in events
        /\ "os.makedirs" \in events => "shutil.rmtree" \in events

\* ------------------------------------------------- main builds the job configuration

\* Largest value given to a numeric option of the command line.
MaxOption == 1

\* The list object DEFAULT_CONFIG["box_size"] of gradient.py, and the list
\* json.load builds for the "box_size" of gradient_config.json.
default_box_size == "DEFAULT_CONFIG['box_size']"
loaded_box_size == "user_config['box_size']"

\* gradient.py DEFAULT_CONFIG, its numeric entries: box_size holds a list
\* object, named by its identity; dwell_time is counted in half seconds.
gradient_DEFAULT_CONFIG ==
    [box_size |-> default_box_size, padding |-> 20, font_size |-> 35, fps |-> 30,
     dwell_halfsec |-> 6]

\* The lists the module's DEFAULT_CONFIG holds when the script starts
\* (those of generate.py, the colours, are never written in place).
ModuleHeap(e) ==
    IF e = "gradient.py" THEN (default_box_size :> <<1000, 209>>) ELSE <<>>

DefaultsOf(e) == IF e = "gradient.py" THEN gradient_DEFAULT_CONFIG ELSE DEFAULT_CONFIG

\* The numeric options of parse_args, in the order main tests them.
Options(e) ==
    IF e = "gradient.py" THEN <<"width", "height", "font_size", "padding", "fps", "dwell">>
    ELSE <<"font_size", "max_width", "padding", "fps", "char_speed", "dwell">>

\* argparse: an option that is not given is None, here <<>>; a given one
\* holds its number, here <<v>>.
OptionValues == {<<>>} \cup {<<v>> : v \in 0..MaxOption}

OptionArgs(e) == [{Options(e)[k] : k \in 1..Len(Options(e))} -> OptionValues]

\* The configuration files of a job: none, one with an fps, one with a
\* box_size (gradient_config.json only).
JobConfigFiles(e) ==
    {[kind |-> "absent"], [kind |-> "object", value |-> [fps |-> 60]]}
    \cup (IF e = "gradient.py"
          THEN {[kind |-> "object", value |-> [box_size |-> <<640, 120>>]]}
          ELSE {})

\* `if args.x:` the truth value of an option: None and 0 are false.
truthy(option) == option # <<>> /\ option[1] # 0

\* The configuration key an option is written to.
config_key(option) ==
    CASE option = "max_width" -> "max_text_width"
      [] option = "dwell" -> "dwell_halfsec"
      [] OTHER -> option

\* The statement after the test of an option: the test of the next one, or
\* the end of the overrides.
next_option(e, option) ==
    LET k == CHOOSE n \in 1..Len(Options(e)) : Options(e)[n] = option
    IN  IF k = Len(Options(e)) THEN "overridden" ELSE Options(e)[k + 1]

CfgInit ==
    /\ pc = "load_config"
    /\ NoWrap /\ NoJob /\ PxStart /\ BoxIdle /\ NoExport /\ NoGui
    /\ engine \in {"generate.py", "gradient.py"}
    /\ frontend = "cli"
    /\ args \in OptionArgs(engine)
    /\ heap = ModuleHeap(engine)
    /\ env = UnknownEnv
    /\ files = <<>> /\ file_index = 0 /\ events = {}
    /\ returned = "none" /\ returncode = "none" /\ reported = "none"

CfgFixed == <<wrapVars, pipeline, lines, video, pxVars, boxVars, exportVars,
              engine, frontend, args, files, file_index, events, returned,
              returncode, reported, workers, tk_calls>>

\* main, `config = load_config()`: DEFAULT_CONFIG.copy() copies the
\* dictionary, not the lists it holds; update() puts the file's own objects
\* over the copied entries.
MainCopyDefaults ==
    /\ pc = "load_config"
    /\ \E file \in JobConfigFiles(engine) :
          /\ env' = [env EXCEPT !.config_file = file]
          /\ IF file.kind = "object" /\ "box_size" \in DOMAIN file.value
             THEN /\ heap' = (loaded_box_size :> file.value.box_size) @@ heap
                  /\ config' = [DefaultsOf(engine) EXCEPT !.box_size = loaded_box_size]
             ELSE /\ heap' = heap
                  /\ config' = IF file.kind = "object"
                               THEN dict_update(DefaultsOf(engine), file).config
                               ELSE DefaultsOf(engine)
    /\ pc' = Options(engine)[1]
    /\ UNCHANGED CfgFixed

\* gradient.py main, `if args.width: config["box_size"][0] = args.width` and
\* the same for the height: the list config["box_size"] is written in place.
MainOverrideBoxSize ==
    /\ pc \in {"width", "height"}
    /\ heap' = IF truthy(args[pc])
               THEN [heap EXCEPT ![config.box_size] =
                        [@ EXCEPT ![IF pc = "width" THEN 1 ELSE 2] = args[pc][1]]]
               ELSE heap
    /\ pc' = next_option(engine, pc)
    /\ UNCHANGED <<CfgFixed, config, env>>

\* main, `if args.x: config[key] = args.x` for the other numeric options.
MainOverrideKey ==
    /\ pc \in {"font_size", "max_width", "padding", "fps", "char_speed", "dwell"}
    /\ config' = IF truthy(args[pc])
                 THEN [config EXCEPT ![config_key(pc)] = args[pc][1]]
                 ELSE config
    /\ pc' = next_option(engine, pc)
    /\ UNCHANGED <<CfgFixed, heap, env>>

CfgNext == MainCopyDefaults \/ MainOverrideBoxSize \/ MainOverrideKey

CfgSpec == CfgInit /\ [][CfgNext]_vars

\* The value the job configuration holds for an option.
option_value(option) ==
    IF option = "width" THEN heap[config.box_size][1]
    ELSE IF option = "height" THEN heap[config.box_size][2]
    ELSE config[config_key(option)]

\* C26: whatever main loaded and overrode, the lists DEFAULT_CONFIG holds
\* have the values the module gave them.
C26_DefaultConfigNeverMutated ==
    \A id \in DOMAIN ModuleHeap(engine) : heap[id] = ModuleHeap(engine)[id]

\* C30: when main has applied the overrides, the configuration holds, for
\* every numeric option given on the command line, the value given, 0
\* included.
C30_GivenOptionReplacesConfigValue ==
    pc = "overridden" =>
        \A option \in DOMAIN args :
            args[option] # <<>> => option_value(option) = args[option][1]

\* ------------------------------------------------- gui.py: the worker threads

\* Most render requests made in one session of the window.
MaxJobs == 2

\* The buttons that end in run_command.
Buttons == {"px_generate", "px_dry_run", "gr_generate", "gr_dry_run", "run_batch"}

\* The file the engine started by a button writes: the -o of the tab's
\* output field, the outputs of the batch, nothing for a dry run.
output_of(button) ==
    CASE button = "px_generate" -> "px_output_var"
      [] button = "gr_generate" -> "gr_output_var"
      [] button = "run_batch" -> "batch outputs"
      [] OTHER -> "none"

GuiInit ==
    /\ pc = "mainloop"
    /\ NoWrap /\ NoJob /\ PxStart /\ BoxIdle /\ NoExport /\ NoHeap
    /\ engine = "none" /\ frontend = "gui"
    /\ args = [dry_run |-> FALSE, batch |-> FALSE, output_format |-> "none"]
    /\ env = UnknownEnv
    /\ files = <<>> /\ file_index = 0 /\ events = {}
    /\ returned = "none" /\ returncode = "none"
    /\ reported = "Ready"
    /\ workers = <<>>
    /\ tk_calls = {}

GuiFixed == <<pc, wrapVars, jobVars, video, pxVars, boxVars, exportVars, engine,
              frontend, args, env, files, file_index, events, returned, returncode,
              heap>>

\* A button handler (px_generate, px_dry_run, gr_generate, gr_dry_run,
\* run_batch) in the main thread: the command is built and run_command
\* starts a thread for it; nothing holds a button back while a job runs.
GuiPress ==
    /\ Len(workers) < MaxJobs
    /\ \E button \in Buttons :
          workers' = Append(workers, [button |-> button, at |-> "started",
                                      outcome |-> "none"])
    /\ UNCHANGED <<GuiFixed, reported, tk_calls>>

\* worker(), in its own thread, up to the blocking call: the status is set
\* and subprocess.run starts the engine.
WorkerStart ==
    \E w \in 1..Len(workers) :
        /\ workers[w].at = "started"
        /\ reported' = "Running..."
        /\ tk_calls' = tk_calls \cup {<<"worker", "status_var.set">>}
        /\ workers' = [workers EXCEPT ![w].at = "subprocess"]
        /\ UNCHANGED GuiFixed

\* worker(): subprocess.run returned (exit status 0 or not) or raised; the
\* callback is handed to the main thread with root.after.
WorkerFinish ==
    \E w \in 1..Len(workers), outcome \in {"ok", "failed", "raised"} :
        /\ workers[w].at = "subprocess"
        /\ workers' = [workers EXCEPT ![w].at = "posted", ![w].outcome = outcome]
        /\ tk_calls' = tk_calls \cup {<<"worker", "root.after">>}
        /\ UNCHANGED <<GuiFixed, reported>>

\* The main thread runs a posted callback: update_output for a batch whose
\* subprocess returned, show_result otherwise.
MainCallback ==
    \E w \in 1..Len(workers) :
        /\ workers[w].at = "posted"
        /\ IF workers[w].button = "run_batch" /\ workers[w].outcome # "raised"
           THEN /\ reported' = IF workers[w].outcome = "ok" THEN "Batch complete"
                               ELSE "Batch failed"
                /\ tk_calls' = tk_calls \cup {<<"main", "batch_output.insert">>,
                                              <<"main", "status_var.set">>}
           ELSE /\ reported' = IF workers[w].outcome = "ok" THEN "Done" ELSE "Error"
                /\ tk_calls' = tk_calls \cup {<<"main", "status_var.set">>,
                                              <<"main", "messagebox">>}
        /\ workers' = [workers EXCEPT ![w].at = "shown"]
        /\ UNCHANGED GuiFixed

GuiNext == GuiPress \/ WorkerStart \/ WorkerFinish \/ MainCallback

GuiSpec == GuiInit /\ [][GuiNext]_vars

\* C28: the only call a worker thread makes on a Tk object is root.after,
\* which hands the output and the success flag to the main thread.
C28_WorkerTouchesNoTkState ==
    \A call \in tk_calls : call[1] = "worker" => call[2] = "root.after"

\* C29: while the engine of a started job runs the status line reads
\* "Running...", and no two running engines write the same output file.
C29_RunningShownAndOutputsExclusive ==
    /\ (\E w \in 1..Len(workers) : workers[w].at = "subprocess")
          => reported = "Running..."
    /\ \A v, w \in 1..Len(workers) :
          (v # w /\ workers[v].at = "subprocess" /\ workers[w].at = "subprocess"
                 /\ output_of(workers[v].button) # "none")
              => output_of(workers[v].button) # output_of(workers[w].button)

====
